---- MODULE Spec2Model ----
(***************************************************************************)
(* Model of slae_test_suite/ResultsLogger.py: the _ResultsLogger class,    *)
(* its factory create_results_logger, and the collaborators it drives      *)
(* (git through subprocess.run, the GitHub contents API through            *)
(* requests.put, the local file system, stdout, the process exit status).  *)
(*                                                                         *)
(* A text is a sequence of symbols.  A symbol is a one-character string,   *)
(* or a longer string standing for a run of characters that the code       *)
(* never looks into (no quote, comma, carriage return or line feed, and    *)
(* no slash where the code splits on slashes).                             *)
(***************************************************************************)
EXTENDS Integers, Sequences, FiniteSets, TLC

\* ------------------------------------------------------------------ bounds
NumLoggers == 2      \* logger instances one process may create
MaxOps == 3          \* log_result calls and PUTs of one run, over all loggers

Loggers == 1..NumLoggers

\* ------------------------------------------------------- python primitives
Max(a, b) == IF a > b THEN a ELSE b

\* s[:-n]
DropLast(s, n) == SubSeq(s, 1, Max(Len(s) - n, 0))

\* s[-n:]
TakeLast(s, n) == SubSeq(s, Max(Len(s) - n, 0) + 1, Len(s))

\* s[-1]
LastOf(s) == s[Len(s)]

RECURSIVE SplitFrom(_, _, _, _)
SplitFrom(s, sep, i, cur) ==
    IF i > Len(s) THEN <<cur>>
    ELSE IF s[i] = sep THEN <<cur>> \o SplitFrom(s, sep, i + 1, <<>>)
    ELSE SplitFrom(s, sep, i + 1, Append(cur, s[i]))

\* s.split(sep)
Split(s, sep) == SplitFrom(s, sep, 1, <<>>)

RECURSIVE Join(_, _)
\* sep.join(parts)
Join(parts, sep) ==
    IF Len(parts) = 0 THEN <<>>
    ELSE IF Len(parts) = 1 THEN parts[1]
    ELSE parts[1] \o sep \o Join(Tail(parts), sep)

\* str(n) of an int
IntStr(n) == <<ToString(n)>>

\* Instants and durations are kept by their type alone: no branch of the
\* code depends on their value, only on whether __runtime is None, a
\* datetime or a timedelta.
NoneValue == "None"
Datetime == "datetime"
Timedelta == "timedelta"
TypeError == "TypeError"

\* datetime.__sub__ with a datetime on the left: datetime - datetime is a
\* timedelta, datetime - timedelta is a datetime, datetime - None raises
\* TypeError
DatetimeSubNoneAsEpoch(x) ==
    CASE x = Datetime -> Timedelta
      [] x = Timedelta -> Datetime
      [] OTHER -> Timedelta

DatetimeSub(x) ==
    CASE x = Datetime -> Timedelta
      [] x = Timedelta -> Datetime
      [] OTHER -> TypeError

\* str() of a datetime or a timedelta
TimeStr(x) ==
    IF x = Timedelta THEN <<"0:00:01.000000">>
    ELSE <<"2026-11-06 00:00:00.000000">>

\* datetime.today().strftime("%m-%d-%Y-%H:%M:%S")
Strftime == <<"11-06-2026-00:00:00">>

\* f"{x:.2f}" of c / n * 100, in hundredths of a percent (no tie below n = 32)
Percent2f(c, n) == (2 * 10000 * c + n) \div (2 * n)

\* ------------------------------------------------------------ csv, base64
RECURSIVE DoubleQuotes(_)
DoubleQuotes(f) ==
    IF f = <<>> THEN <<>>
    ELSE (IF Head(f) = "\"" THEN <<"\"", "\"">> ELSE <<Head(f)>>)
         \o DoubleQuotes(Tail(f))

QuoteField(f) == <<"\"">> \o DoubleQuotes(f) \o <<"\"">>

\* csv.writer(output, quoting=csv.QUOTE_ALL).writerow(fields)
WriteRow(fields) ==
    Join([i \in 1..Len(fields) |-> QuoteField(fields[i])], <<",">>)
    \o <<"\r", "\n">>

RECURSIVE WriteRows(_)
WriteRows(rows) ==
    IF rows = <<>> THEN <<>> ELSE WriteRow(Head(rows)) \o WriteRows(Tail(rows))

\* base64.b64encode(s.encode()).decode() and its inverse
B64Encode(text) == [b64 |-> text]
B64Decode(enc) == enc.b64

\* csv.reader over a document, one row at a time: mode "start" is the
\* start of a field, "quoted" inside a quoted field, "plain" after the
\* closing quote or in an unquoted field.  ParseRowFrom reads the row that
\* starts at s[i] and answers it with the index that follows its terminator.
RECURSIVE ParseRowFrom(_, _, _, _, _)
ParseRowFrom(s, i, mode, field, row) ==
    IF i > Len(s) THEN
        [row |-> Append(row, field), next |-> i]
    ELSE IF mode = "quoted" THEN
        IF s[i] = "\"" THEN
            IF i < Len(s) /\ s[i + 1] = "\""
            THEN ParseRowFrom(s, i + 2, "quoted", Append(field, "\""), row)
            ELSE ParseRowFrom(s, i + 1, "plain", field, row)
        ELSE ParseRowFrom(s, i + 1, "quoted", Append(field, s[i]), row)
    ELSE IF s[i] = "\r" /\ i < Len(s) /\ s[i + 1] = "\n" THEN
        [row |-> IF mode = "start" /\ row = <<>> THEN <<>> ELSE Append(row, field),
         next |-> i + 2]
    ELSE IF s[i] = "," THEN
        ParseRowFrom(s, i + 1, "start", <<>>, Append(row, field))
    ELSE IF s[i] = "\"" /\ mode = "start" THEN
        ParseRowFrom(s, i + 1, "quoted", <<>>, row)
    ELSE ParseRowFrom(s, i + 1, "plain", Append(field, s[i]), row)

RECURSIVE ParseRows(_, _)
ParseRows(s, i) ==
    IF i > Len(s) THEN <<>>
    ELSE LET r == ParseRowFrom(s, i, "start", <<>>, <<>>)
         IN  <<r.row>> \o ParseRows(s, r.next)

ParseCsv(s) == ParseRows(s, 1)

\* --------------------------------------------------------- the environment
\* what subprocess.run hands back for each git command
RemoteStdout ==
    <<"h", "t", "t", "p", "s", ":", "/", "/", "h", "/", "o", "/", "r",
      ".", "g", "i", "t", "\n">>
RevParseStdout == <<"c0ffee", "\n">>
ShowStdout == <<"'", "A <a@x>", "'", "\n">>
GitStderr == <<"fatal: git failed">>

GitOrder == <<"remote get-url origin", "add .", "commit -m Running test",
              "rev-parse HEAD", "show -s --format='%an <%ae>' HEAD">>

\* answers typed at the confirmation prompt
ConfirmInputs == {<<" ", "Y", " ">>, <<"n">>}

\* the arguments of log_result
Row(d, iv, dv, p, c) ==
    [document_name |-> d, independent_variable |-> iv,
     dependent_variable |-> dv, predicted_classification |-> p,
     coded_classification |-> c]
LogInputs ==
    { Row(<<"doc1">>, <<"cause">>, <<"effect">>, <<"+">>, <<"+">>),
      Row(<<"doc2">>, <<"a", ",", "b">>, <<"say ", "\"", "x", "\"">>,
          <<"+">>, <<"-">>) }

\* what the remote store answers to the PUT
Created == 201
Responses ==
    { [status |-> 201, json |-> TRUE],
      [status |-> 500, json |-> TRUE],
      [status |-> 500, json |-> FALSE] }

NoResponse == [status |-> 0, json |-> FALSE]

\* what git answers to the five commands of one construction: every command
\* succeeds, or one of them fails
NoGit == [i \in 1..5 |-> 0]
GitAnswers ==
    { NoGit }
    \cup { [i \in 1..5 |-> IF i = k THEN 128 ELSE 0] : k \in 1..5 }
    \cup { [i \in 1..5 |-> IF i = 3 THEN 1 ELSE 0] }

Unset == <<"<unset>">>

\* ------------------------------------------------------------------ state
VARIABLES
    data,               \* _ResultsLogger.__data, the class attribute
    unique_documents,   \* _ResultsLogger.__unique_documents, the class attribute
    phase,              \* per logger: "none", "live", "failed"
    is_verbose, is_enabled,
    runtime,            \* self.__runtime (the class default until assigned)
    total_correct,      \* self.__total_correct (the class default until assigned)
    pipeline_repo_url, commit_hash, executed_by, datetime,
    exited, exitCode,   \* the process
    gitCalls,           \* per logger: the git commands run, with their exit status
    out,                \* per logger: the lines printed
    puts,               \* per logger: the PUT requests issued, with the answer
    files,              \* per logger: the local files written
    calls,              \* per logger: the arguments of the log_result calls made
    lastSave            \* per logger: how the last save_results call went

vars == <<data, unique_documents, phase, is_verbose, is_enabled, runtime,
          total_correct, pipeline_repo_url, commit_hash, executed_by, datetime,
          exited, exitCode, gitCalls, out, puts, files, calls, lastSave>>

Line(kind, fields, nums) == [kind |-> kind, fields |-> fields, nums |-> nums]

NoSave == [outcome |-> "none", steps |-> <<>>, ncalls |-> 0]

Init ==
    /\ data = <<>>
    /\ unique_documents = {}
    /\ phase = [l \in Loggers |-> "none"]
    /\ is_verbose = [l \in Loggers |-> FALSE]
    /\ is_enabled = [l \in Loggers |-> FALSE]
    /\ runtime = [l \in Loggers |-> NoneValue]
    /\ total_correct = [l \in Loggers |-> 0]
    /\ pipeline_repo_url = [l \in Loggers |-> Unset]
    /\ commit_hash = [l \in Loggers |-> Unset]
    /\ executed_by = [l \in Loggers |-> Unset]
    /\ datetime = [l \in Loggers |-> Unset]
    /\ exited = FALSE
    /\ exitCode = 0
    /\ gitCalls = [l \in Loggers |-> <<>>]
    /\ out = [l \in Loggers |-> <<>>]
    /\ puts = [l \in Loggers |-> <<>>]
    /\ files = [l \in Loggers |-> <<>>]
    /\ calls = [l \in Loggers |-> <<>>]
    /\ lastSave = [l \in Loggers |-> NoSave]

\* ------------------------------------------------- _ResultsLogger.__init__
\* the number of git commands __init__ runs when they answer rcs: it stops
\* at the first one whose exit status is not 0
RECURSIVE StepsRunIgnoringAdd(_, _)
StepsRunIgnoringAdd(rcs, k) ==
    IF k > Len(rcs) THEN Len(rcs)
    ELSE IF rcs[k] # 0 /\ k # 2 THEN k
    ELSE StepsRunIgnoringAdd(rcs, k + 1)

RECURSIVE StepsRun(_, _)
StepsRun(rcs, k) ==
    IF k > Len(rcs) THEN Len(rcs)
    ELSE IF rcs[k] # 0 THEN k
    ELSE StepsRun(rcs, k + 1)

DisabledLine == Line("Results Logger is disabled", <<>>, <<>>)

NoChangesLine ==
    Line("No changes detected in code base. Make changes before trying to run another test.",
         <<>>, <<>>)
StderrLine == Line("stderr", <<GitStderr>>, <<>>)

\* what __init__ prints when git commit answers rc # 0
CommitFailureLineAlwaysStderr(rc) == StderrLine

CommitFailureLine(rc) == IF rc = 1 THEN NoChangesLine ELSE StderrLine

\* what __init__ prints when step k answers rc # 0
FailureLine(k, rc) == IF k = 3 THEN CommitFailureLine(rc) ELSE StderrLine

ConstructorBody(l, verbose, enabled, rcs) ==
    /\ is_verbose' = [is_verbose EXCEPT ![l] = verbose]
    /\ is_enabled' = [is_enabled EXCEPT ![l] = enabled]
    /\ IF enabled = FALSE THEN
          /\ out' = [out EXCEPT ![l] = Append(@, DisabledLine)]
          /\ phase' = [phase EXCEPT ![l] = "live"]
          /\ UNCHANGED <<pipeline_repo_url, commit_hash, executed_by, datetime,
                         exited, exitCode, gitCalls>>
       ELSE
          LET n == StepsRun(rcs, 1)
              failed == rcs[n] # 0
              url == DropLast(RemoteStdout, 5)
              hash == DropLast(RevParseStdout, 1)
              author == DropLast(ShowStdout, 1)
          IN  /\ gitCalls' = [gitCalls EXCEPT ![l] =
                     [i \in 1..n |-> [cmd |-> GitOrder[i], rc |-> rcs[i]]]]
              /\ pipeline_repo_url' =
                     [pipeline_repo_url EXCEPT ![l] = IF n > 1 \/ ~failed THEN url ELSE @]
              /\ commit_hash' =
                     [commit_hash EXCEPT ![l] = IF n > 4 \/ ~failed THEN hash ELSE @]
              /\ executed_by' =
                     [executed_by EXCEPT ![l] = IF ~failed THEN author ELSE @]
              /\ IF failed THEN
                    /\ out' = [out EXCEPT ![l] = Append(@, FailureLine(n, rcs[n]))]
                    /\ exited' = TRUE
                    /\ exitCode' = 1
                    /\ phase' = [phase EXCEPT ![l] = "failed"]
                    /\ UNCHANGED datetime
                 ELSE
                    /\ datetime' = [datetime EXCEPT ![l] = Strftime]
                    /\ out' = [out EXCEPT ![l] =
                           Append(@, Line("Created Results Logger for",
                                          <<url \o <<"/commit/">> \o hash>>, <<>>))]
                    /\ phase' = [phase EXCEPT ![l] = "live"]
                    /\ UNCHANGED <<exited, exitCode>>
    /\ UNCHANGED <<data, unique_documents, runtime, total_correct, puts, files,
                   calls, lastSave>>

\* _ResultsLogger(is_verbose, is_enabled)
Construct(l) ==
    /\ ~exited
    /\ phase[l] = "none"
    /\ \A k \in 1..(l - 1) : phase[k] # "none"   \* logger l is the l-th one created
    /\ \E verbose \in BOOLEAN, enabled \in BOOLEAN :
          \E rcs \in (IF enabled THEN GitAnswers ELSE {NoGit}) :
              ConstructorBody(l, verbose, enabled, rcs)

\* ------------------------------------------------- create_results_logger
IsSpace(c) == c \in {" ", "\t", "\n"}

RECURSIVE LStrip(_)
LStrip(s) == IF s # <<>> /\ IsSpace(Head(s)) THEN LStrip(Tail(s)) ELSE s

RECURSIVE RStrip(_)
RStrip(s) ==
    IF s # <<>> /\ IsSpace(s[Len(s)]) THEN RStrip(SubSeq(s, 1, Len(s) - 1)) ELSE s

\* s.strip()
Strip(s) == RStrip(LStrip(s))

\* s.lower()
Lower(s) == [i \in 1..Len(s) |-> CASE s[i] = "Y" -> "y" [] s[i] = "N" -> "n" [] OTHER -> s[i]]

\* create_results_logger(is_verbose), run with or without --log-results
CreateResultsLogger(l) ==
    /\ ~exited
    /\ phase[l] = "none"
    /\ \A k \in 1..(l - 1) : phase[k] # "none"   \* logger l is the l-th one created
    /\ \E verbose \in BOOLEAN, log_results \in BOOLEAN :
       \E answer \in (IF log_results THEN ConfirmInputs ELSE {<<>>}) :
       \E rcs \in (IF log_results /\ Lower(Strip(answer)) = <<"y">>
                    THEN GitAnswers ELSE {NoGit}) :
          IF log_results /\ Lower(Strip(answer)) # <<"y">> THEN
              /\ out' = [out EXCEPT ![l] =
                     Append(@, Line("Logging canceled, exiting program.", <<>>, <<>>))]
              /\ exited' = TRUE
              /\ exitCode' = 0
              /\ UNCHANGED <<data, unique_documents, phase, is_verbose, is_enabled,
                             runtime, total_correct, pipeline_repo_url, commit_hash,
                             executed_by, datetime, gitCalls, puts, files,
                             calls, lastSave>>
          ELSE ConstructorBody(l, verbose, log_results, rcs)

\* ------------------------------------------------------------- log_result
\* the early return of log_result and save_results
NeverDisabled(l) == FALSE

Disabled(l) == is_enabled[l] = FALSE

TotalCalls == LET RECURSIVE Sum(_)
                  Sum(k) == IF k = 0 THEN 0 ELSE Len(calls[k]) + Sum(k - 1)
              IN  Sum(NumLoggers)

TotalPuts == LET RECURSIVE Sum(_)
                 Sum(k) == IF k = 0 THEN 0 ELSE Len(puts[k]) + Sum(k - 1)
             IN  Sum(NumLoggers)

VerboseLine(r) ==
    Line("verbose", <<r.document_name, r.independent_variable, r.dependent_variable,
                      r.predicted_classification, r.coded_classification>>, <<>>)

LogResult(l) ==
    /\ ~exited
    /\ phase[l] = "live"
    /\ TotalCalls + TotalPuts < MaxOps
    /\ \E r \in LogInputs :
        /\ calls' = [calls EXCEPT ![l] = Append(@, r)]
        /\ IF Disabled(l) THEN
              UNCHANGED <<data, unique_documents, runtime, total_correct, out>>
           ELSE
              LET first == runtime[l] = NoneValue
                  started == IF first THEN Datetime ELSE runtime[l]
                  startLine == IF first
                               THEN <<Line("Starting test at",
                                           <<TimeStr(started), executed_by[l]>>, <<>>)>>
                               ELSE <<>>
              IN  /\ runtime' = [runtime EXCEPT ![l] = started]
                  /\ IF first /\ executed_by[l] = Unset THEN
                        \* AttributeError at the start notice
                        UNCHANGED <<data, unique_documents, total_correct, out>>
                     ELSE
                        /\ data' = Append(data, r)
                        /\ unique_documents' = unique_documents \cup {r.document_name}
                        /\ total_correct' =
                               [total_correct EXCEPT ![l] =
                                   IF r.predicted_classification = r.coded_classification
                                   THEN @ + 1 ELSE @]
                        /\ out' = [out EXCEPT ![l] =
                               @ \o startLine
                                 \o (IF is_verbose[l] THEN <<VerboseLine(r)>> ELSE <<>>)]
    /\ UNCHANGED <<phase, is_verbose, is_enabled, pipeline_repo_url, commit_hash,
                   executed_by, datetime, exited, exitCode, gitCalls, puts, files,
                   lastSave>>

\* ----------------------------------------------------------- save_results
test_suite_version == <<"1.1.0">>

\* Result.to_csv_row
to_csv_row(r) ==
    <<r.document_name, r.independent_variable, r.dependent_variable,
      r.predicted_classification, r.coded_classification>>

HeaderRow ==
    <<<<"Document Name">>, <<"Independent Variable">>, <<"Dependent Variable">>,
      <<"Predicted Classification">>, <<"Coded Classification">>>>

\* the rows save_results hands to the csv writer, d the elapsed duration
CsvRows(l, d) ==
    << <<<<"Pipeline">>, pipeline_repo_url[l] \o <<"/commit/">> \o commit_hash[l]>>,
       <<<<"Executed By">>, executed_by[l]>>,
       <<<<"Date">>, datetime[l]>>,
       <<<<"Runtime">>, TimeStr(d)>>,
       <<<<"Total Documents">>, IntStr(Cardinality(unique_documents))>>,
       <<>>,
       HeaderRow >>
    \o [i \in 1..Len(data) |-> to_csv_row(data[i])]

PutUrl(l) ==
    <<"https://api.github.com/repos/ai-unc/SLAE-test-suite-v1/contents/results/">>
    \o Join(TakeLast(Split(pipeline_repo_url[l], "/"), 2), <<"/">>)
    \o <<"/">> \o datetime[l] \o <<".csv">>

LocalName(l) ==
    <<"local_">> \o LastOf(Split(pipeline_repo_url[l], "/")) \o <<"_">>
    \o datetime[l] \o <<".csv">>

Saved(l, outcome, steps) ==
    lastSave' = [lastSave EXCEPT ![l] =
                    [outcome |-> outcome, steps |-> steps, ncalls |-> Len(calls[l])]]

\* save_results gets as far as the PUT
ReachesPut(l) ==
    /\ ~Disabled(l)
    /\ runtime[l] # NoneValue
    /\ Len(data) > 0
    /\ pipeline_repo_url[l] # Unset

SaveResults(l) ==
    /\ ~exited
    /\ phase[l] = "live"
    /\ ReachesPut(l) => TotalCalls + TotalPuts < MaxOps
    /\ \E response \in (IF ReachesPut(l) THEN Responses ELSE {NoResponse}) :
        IF Disabled(l) THEN
            /\ Saved(l, "noop", <<>>)
            /\ UNCHANGED <<runtime, out, puts, files>>
        ELSE LET d == DatetimeSub(runtime[l]) IN
        IF d = TypeError THEN
            /\ Saved(l, "TypeError", <<>>)
            /\ UNCHANGED <<runtime, out, puts, files>>
        ELSE IF Len(data) = 0 THEN
            /\ Saved(l, "ZeroDivisionError", <<"duration">>)
            /\ runtime' = [runtime EXCEPT ![l] = d]
            /\ UNCHANGED <<out, puts, files>>
        ELSE LET
            stats == << Line("Total Accuracy", <<>>,
                             <<Percent2f(total_correct[l], Len(data)),
                               total_correct[l], Len(data)>>),
                        Line("Test Runtime", <<TimeStr(d)>>, <<>>) >>
        IN
        IF pipeline_repo_url[l] = Unset THEN
            /\ Saved(l, "AttributeError", <<"duration", "accuracy">>)
            /\ runtime' = [runtime EXCEPT ![l] = d]
            /\ out' = [out EXCEPT ![l] = @ \o stats]
            /\ UNCHANGED <<puts, files>>
        ELSE LET
            status == response.status
            json == response.json
            csv_string == WriteRows(CsvRows(l, d))
            request == [url |-> PutUrl(l),
                        message |-> <<"Automated Commit by Test Suite v">>
                                    \o test_suite_version,
                        content |-> B64Encode(csv_string),
                        status |-> status, json |-> json]
            failure == << Line("Failed to upload results", <<>>, <<>>),
                          Line("Status Code:", <<>>, <<status>>) >>
        IN
            /\ runtime' = [runtime EXCEPT ![l] = d]
            /\ puts' = [puts EXCEPT ![l] = Append(@, request)]
            /\ IF status = Created THEN
                  /\ Saved(l, "uploaded", <<"duration", "accuracy", "csv", "put">>)
                  /\ out' = [out EXCEPT ![l] =
                         @ \o stats
                           \o <<Line("Results uploaded to Test Suite repository",
                                     <<>>, <<>>)>>]
                  /\ UNCHANGED files
               ELSE IF ~json THEN
                  \* response.json() raises on a body that is not JSON
                  /\ Saved(l, "JSONDecodeError", <<"duration", "accuracy", "csv", "put">>)
                  /\ out' = [out EXCEPT ![l] = @ \o stats \o failure]
                  /\ UNCHANGED files
               ELSE
                  /\ Saved(l, "local", <<"duration", "accuracy", "csv", "put", "file">>)
                  /\ out' = [out EXCEPT ![l] =
                         @ \o stats \o failure
                           \o << Line("Response:", <<>>, <<>>),
                                 Line("Writing results to local csv file", <<>>, <<>>) >>]
                  /\ files' = [files EXCEPT ![l] =
                         Append(@, [name |-> LocalName(l), content |-> csv_string])]
    /\ UNCHANGED <<data, unique_documents, phase, is_verbose, is_enabled,
                   total_correct, pipeline_repo_url, commit_hash, executed_by,
                   datetime, exited, exitCode, gitCalls, calls>>

Next ==
    \E l \in Loggers :
        \/ Construct(l)
        \/ CreateResultsLogger(l)
        \/ LogResult(l)
        \/ SaveResults(l)

Spec == Init /\ [][Next]_vars

\* ------------------------------------------------------------- the claims
Range(f) == {f[i] : i \in DOMAIN f}

Live(l) == phase[l] = "live"

\* the log_result calls made on logger l before its last save_results call
CallsAtLastSave(l) == SubSeq(calls[l], 1, lastSave[l].ncalls)

DocsOf(cs) == {cs[i].document_name : i \in DOMAIN cs}

CorrectIn(cs) ==
    Cardinality({i \in DOMAIN cs :
                    cs[i].predicted_classification = cs[i].coded_classification})

\* the CSV document of the last PUT of logger l, read back
LastCsv(l) == ParseCsv(B64Decode(LastOf(puts[l]).content))

\* the last accuracy line logger l printed
LastAccuracy(l) ==
    LET at == {i \in DOMAIN out[l] : out[l][i].kind = "Total Accuracy"}
    IN  out[l][CHOOSE i \in at : \A j \in at : j <= i]

\* C1: the "Total Documents" row of the CSV that save_results builds on an
\* enabled logger holds the number of distinct document identifiers among
\* the log_result calls made on that logger.
C1_TotalDocumentsOfOwnCalls ==
    \A l \in Loggers :
        "csv" \in Range(lastSave[l].steps) =>
            /\ Len(LastCsv(l)) >= 5
            /\ LastCsv(l)[5] =
                   <<<<"Total Documents">>,
                     IntStr(Cardinality(DocsOf(CallsAtLastSave(l))))>>

\* C2: the accuracy save_results computes on an enabled logger is the number
\* of that logger's calls whose predicted classification equals the coded
\* one, divided by the number of that logger's calls.
C2_AccuracyOfOwnCalls ==
    \A l \in Loggers :
        "accuracy" \in Range(lastSave[l].steps) =>
            LET a == LastAccuracy(l)
                own == CallsAtLastSave(l)
            IN  /\ Len(own) > 0
                /\ a.nums[2] * Len(own) = CorrectIn(own) * a.nums[3]

\* C3: save_results on an enabled logger on which log_result was never
\* called ends in an error (the TypeError of datetime - None) before it
\* computes a duration or an accuracy, builds a CSV, issues a PUT or writes
\* a file.
C3_SaveWithoutLogFails ==
    \A l \in Loggers :
        (is_enabled[l] /\ lastSave[l].outcome # "none" /\ lastSave[l].ncalls = 0) =>
            /\ lastSave[l].outcome = "TypeError"
            /\ lastSave[l].steps = <<>>
            /\ puts[l] = <<>>
            /\ files[l] = <<>>
            /\ \A i \in DOMAIN out[l] :
                   out[l][i].kind \notin {"Total Accuracy", "Test Runtime"}
            /\ calls[l] = <<>> => runtime[l] = NoneValue

\* save_results has failed on a logger that never logged, while the shared
\* result list already holds a Result of another logger
C3_Witness ==
    \E l \in Loggers :
        /\ is_enabled[l]
        /\ lastSave[l].outcome = "TypeError"
        /\ lastSave[l].ncalls = 0
        /\ calls[l] = <<>>
        /\ data # <<>>

\* C4: a logger constructed with is_enabled = False runs no git command,
\* issues no PUT, writes no file, prints nothing but the disabled notice,
\* and its log_result and save_results calls leave the result list, the
\* document set and the correct-count as they were.
C4_DisabledLoggerIsInert ==
    /\ [](\A l \in Loggers :
            (Live(l) /\ ~is_enabled[l]) =>
                /\ gitCalls[l] = <<>>
                /\ puts[l] = <<>>
                /\ files[l] = <<>>
                /\ out[l] = <<DisabledLine>>
                /\ lastSave[l].outcome \in {"none", "noop"}
                /\ lastSave[l].steps = <<>>
                /\ runtime[l] = NoneValue
                /\ total_correct[l] = 0)
    /\ [][\A l \in Loggers :
            (/\ Live(l)
             /\ ~is_enabled[l]
             /\ calls'[l] # calls[l] \/ lastSave'[l] # lastSave[l]) =>
                UNCHANGED <<data, unique_documents, total_correct, runtime,
                            gitCalls, puts, files, out, exited>>]_vars

C4_Witness ==
    \E l \in Loggers :
        /\ Live(l)
        /\ ~is_enabled[l]
        /\ calls[l] # <<>>
        /\ lastSave[l].outcome = "noop"

\* C5: whenever the PUT of save_results is answered with a status other
\* than 201, whatever the body, save_results writes the local file
\* local_<repo-name>_<session-timestamp>.csv holding the CSV document whose
\* base64 encoding the PUT carried.
C5_LocalFallbackOnAnyFailure ==
    \A l \in Loggers : \A i \in DOMAIN puts[l] :
        puts[l][i].status # 201 =>
            \E j \in DOMAIN files[l] :
                /\ files[l][j].name = <<"local_", "r", "_">> \o datetime[l] \o <<".csv">>
                /\ files[l][j].content = B64Decode(puts[l][i].content)

\* C6: when git commit answers 1 ("nothing to commit") the process exits
\* with status 1 after printing the remediation message, with the commit
\* hash and the author unresolved and no Result logged; any other non-zero
\* status of git commit exits with status 1 after printing git's stderr.
C6_CommitFailure ==
    \A l \in Loggers :
        (Len(gitCalls[l]) >= 3 /\ gitCalls[l][3].rc # 0) =>
            /\ exited
            /\ exitCode = 1
            /\ Len(gitCalls[l]) = 3
            /\ commit_hash[l] = Unset
            /\ executed_by[l] = Unset
            /\ ~Live(l)
            /\ calls[l] = <<>>
            /\ out[l] = <<IF gitCalls[l][3].rc = 1 THEN NoChangesLine ELSE StderrLine>>

C6_Witness ==
    \E l \in Loggers :
        /\ Len(gitCalls[l]) = 3
        /\ gitCalls[l][3].rc = 1
        /\ exited

\* C7: the CSV document save_results builds is the five metadata rows, a
\* blank row, the header row, and one row per Result logged in the session,
\* in call order, with the five values passed to log_result.
C7_CsvLayout ==
    \A l \in Loggers :
        "csv" \in Range(lastSave[l].steps) =>
            LET rows == LastCsv(l)
                own == CallsAtLastSave(l)
            IN  /\ Len(rows) = 7 + Len(own)
                /\ \A i \in 1..5 : Len(rows[i]) = 2
                /\ <<rows[1][1], rows[2][1], rows[3][1], rows[4][1], rows[5][1]>> =
                       <<<<"Pipeline">>, <<"Executed By">>, <<"Date">>,
                         <<"Runtime">>, <<"Total Documents">>>>
                /\ rows[6] = <<>>
                /\ rows[7] = HeaderRow
                /\ \A i \in 1..Len(own) : rows[7 + i] = to_csv_row(own[i])

\* C8: the result list and the document set an enabled logger reads hold
\* the Results and the document identifiers logged through that logger, and
\* none logged through another one.
C8_InstanceScoped ==
    \A l \in Loggers :
        (Live(l) /\ is_enabled[l]) =>
            /\ data = calls[l]
            /\ unique_documents = DocsOf(calls[l])

\* C9: an enabled construction runs the git commands in the order
\* get-url, add, commit, rev-parse, show, each at most once; a non-zero
\* exit status ends the process with a non-zero status at once, so that no
\* later command runs and nothing is logged or saved on that logger.
C9_GitOrderFailFast ==
    \A l \in Loggers :
        LET g == gitCalls[l] IN
        /\ Len(g) <= 5
        /\ \A i \in DOMAIN g : g[i].cmd = GitOrder[i]
        /\ \A i \in DOMAIN g :
               g[i].rc # 0 =>
                   /\ i = Len(g)
                   /\ exited
                   /\ exitCode # 0
                   /\ phase[l] = "failed"
                   /\ calls[l] = <<>>
                   /\ lastSave[l] = NoSave
        /\ (Live(l) /\ is_enabled[l]) => Len(g) = 5
        /\ (phase[l] = "failed") => (g # <<>> /\ g[Len(g)].rc # 0)

C9_Witness ==
    \E l \in Loggers :
        /\ Len(gitCalls[l]) = 4
        /\ gitCalls[l][4].rc # 0
        /\ exited

\* C10: once a save_results call has completed on an enabled logger, no
\* later log_result call appends a Result, and no later save_results call
\* recomputes the duration or persists the artifact again.
C10_SaveIsTerminal ==
    [][\A l \in Loggers :
          (is_enabled[l] /\ lastSave[l].outcome \in {"uploaded", "local"}) =>
              /\ calls'[l] # calls[l] => data' = data
              /\ runtime'[l] = runtime[l]
              /\ puts'[l] = puts[l]
              /\ files'[l] = files[l]]_vars

====
